---- MODULE Spec2Model ----
(***************************************************************************)
(* PluginPersistor (extensions/gamebryo-plugin-management): the persistor  *)
(* that keeps the in-memory plugin map in sync with loadorder.txt and      *)
(* plugins.txt of the bound game directory.                                *)
(*                                                                         *)
(* A string is a sequence of characters; a file is the sequence of lines   *)
(* obtained by splitting its text at line breaks (the zero-length file is  *)
(* the one-line file holding the empty line).                              *)
(***************************************************************************)
EXTENDS Integers, Sequences, FiniteSets, Bags, TLC

(* ----------------------------- bounds --------------------------------- *)
MaxCalls == 3         \* calls of the persistor's methods in one behaviour
MaxEvents == 1        \* watcher notifications and external edits

(* ------------------------ program constants --------------------------- *)
retryCount == 3
RetryDelay == 100
DebounceDelay == 500

Undefined == "undefined"
JSNull == [kind |-> "null"]

(* ------------------------------ strings ------------------------------- *)
NameA == <<"a">>
NameB == <<"b">>
NameN == <<"N">>
NameConstructor == <<"c">>      \* 'constructor'
NameW == <<"W">>                \* a name with a character outside latin-1
NameHash == <<"#", "a">>
NameStar == <<"*", "a">>
Header == <<"#">>               \* '# Automatically generated by NMM2'
EmptyLine == << >>
WatchedFileNames == {"loadorder.txt", "plugins.txt"}
FileNames == WatchedFileNames \cup {"other.txt"}

LowerChar(c) == IF c = "N" THEN "n" ELSE c
ToLowerCase(s) == [i \in DOMAIN s |-> LowerChar(s[i])]
StartsWith(s, c) == Len(s) > 0 /\ s[1] = c
Slice1(s) == SubSeq(s, 2, Len(s))

\* iconv-lite encode followed by decode of the same encoding, per character:
\* utf-8 is lossless, latin-1 replaces what it cannot represent by '?'
Latin1Char(c) == IF c = "W" THEN "?" ELSE c
Latin1(s) == [i \in DOMAIN s |-> Latin1Char(s[i])]
Utf8(s) == s

(* --------------------------- the games -------------------------------- *)
Games == {"g1", "g2"}
pluginPath(gameMode) == gameMode
pluginFormat(gameMode) == IF gameMode = "g1" THEN "original" ELSE "fallout4"
nativePlugins(gameMode) == IF gameMode = "g1" THEN {<<"n">>} ELSE {}
\* new Set(...) / undefined
SetOf(S) == [defined |-> TRUE, elems |-> S]
UndefinedSet == [defined |-> FALSE]

(* ------------------------------ maps ---------------------------------- *)
Entry(e, lo) == [enabled |-> e, loadOrder |-> lo]
Object(f) == [kind |-> "object", props |-> f]
EmptyProps == [k \in {} |-> JSNull]
EmptyMap == Object(EmptyProps)
Keys(m) == DOMAIN m.props
Put(f, k, v) == [x \in DOMAIN f \cup {k} |-> IF x = k THEN v ELSE f[x]]
Delete(f, k) == [x \in DOMAIN f \ {k} |-> f[x]]

\* Array.prototype.sort by ascending loadOrder of a set of keys whose
\* loadOrder values are pairwise distinct; the comparator is not called on
\* fewer than two keys
RECURSIVE SortByLoadOrder(_, _)
SortByLoadOrder(f, ks) ==
  IF ks = {} THEN << >>
  ELSE IF Cardinality(ks) = 1 THEN <<CHOOSE x \in ks : TRUE>>
  ELSE LET k == CHOOSE x \in ks : \A y \in ks : f[x].loadOrder <= f[y].loadOrder
       IN <<k>> \o SortByLoadOrder(f, ks \ {k})

(* --------------------------- rendering -------------------------------- *)
\* the line sequence of header + '\r\n' + lines.join('\r\n')
FileText(lines) == <<Header>> \o (IF lines = << >> THEN <<EmptyLine>> ELSE lines)

\* doSerialize, lines 132-137: Object.keys throws on null; the comparator
\* dereferences both of its arguments, and runs when there are two keys or more
NonNativeKeys(m, natives) == {k \in Keys(m) : ToLowerCase(k) \notin natives.elems}
SortThrows(m, natives) ==
  \/ m = JSNull
  \/ /\ Cardinality(NonNativeKeys(m, natives)) >= 2
     /\ \E k \in NonNativeKeys(m, natives) : m.props[k] = JSNull
Sorted(m, natives) == SortByLoadOrder(m.props, NonNativeKeys(m, natives))

\* util.getSafe(state, path, fallback) of nmm-api
getSafe(m, name, fallback) ==
  IF m = JSNull THEN fallback
  ELSE IF name \notin Keys(m) THEN fallback
  ELSE IF m.props[name] = JSNull THEN fallback
  ELSE m.props[name].enabled

\* toPluginListOriginal, lines 97-100: this.mPlugins[pluginName].enabled
toPluginListOriginalThrows(m, input) ==
  \/ m = JSNull /\ input # << >>
  \/ m # JSNull /\ \E i \in DOMAIN input :
        input[i] \notin Keys(m) \/ m.props[input[i]] = JSNull
toPluginListOriginal(m, input) ==
  SelectSeq(input, LAMBDA pluginName : m.props[pluginName].enabled)

\* toPluginListFallout4, lines 102-110
toPluginListFallout4(m, input) ==
  [i \in DOMAIN input |->
     IF getSafe(m, input[i], FALSE) THEN <<"*">> \o input[i] ELSE input[i]]

\* toPluginList, lines 89-95
toPluginListThrows(m, format, input) ==
  format = "original" /\ toPluginListOriginalThrows(m, input)
toPluginList(m, format, input) ==
  IF format = "original" THEN toPluginListOriginal(m, input)
  ELSE toPluginListFallout4(m, input)

\* the two buffers handed to fs.writeFileAsync
LoadOrderData(sorted) == FileText([i \in DOMAIN sorted |-> Utf8(sorted[i])])
PluginsData(filtered) == FileText([i \in DOMAIN filtered |-> Latin1(filtered[i])])

(* ----------------------------- parsing -------------------------------- *)
\* data.length === 0
ZeroLength(data) == data = <<EmptyLine>>

\* filterFileData, lines 157-163
filterFileData(input) ==
  SelectSeq(input, LAMBDA value : ~StartsWith(value, "#") /\ Len(value) > 0)

\* the property names an object literal inherits from Object.prototype: for
\* these plugins[key] !== undefined holds although key is not a key of plugins
Inherited == {NameConstructor}

\* initFromKeyList, lines 165-185; this.mNativePlugins.has throws when the
\* native set is undefined and there is a key to look at.  loadOrderPos starts
\* at the number of keys of the map handed in and grows by one with every key
\* added.  For an inherited name line 177 assigns to a property of the
\* inherited object and the map gets no key
initFromKeyListThrows(keys, natives) == keys # << >> /\ ~natives.defined
\* let loadOrderPos = Object.keys(plugins).length, line 166
loadOrderPosZero(plugins) == 0
loadOrderPosStart(plugins) == Cardinality(DOMAIN plugins)
\* keys.forEach, lines 167-184
RECURSIVE forEachKey(_, _, _, _, _, _)
forEachKey(plugins, keys, enabled, format, natives, loadOrderPos) ==
  IF keys = << >> THEN plugins
  ELSE LET raw == Head(keys)
           keyEnabled == enabled /\ (format = "original" \/ StartsWith(raw, "*"))
           key == IF format = "fallout4" /\ StartsWith(raw, "*")
                  THEN Slice1(raw) ELSE raw
           added == /\ ToLowerCase(key) \notin natives.elems
                    /\ key \notin DOMAIN plugins
                    /\ key \notin Inherited
           next ==
             IF ToLowerCase(key) \in natives.elems THEN plugins
             ELSE IF key \in DOMAIN plugins
               THEN [plugins EXCEPT ![key].enabled = keyEnabled]
             ELSE IF key \in Inherited THEN plugins
               ELSE Put(plugins, key, Entry(keyEnabled, loadOrderPos))
       IN forEachKey(next, Tail(keys), enabled, format, natives,
                     IF added THEN loadOrderPos + 1 ELSE loadOrderPos)
initFromKeyList(plugins, keys, enabled, format, natives) ==
  forEachKey(plugins, keys, enabled, format, natives, loadOrderPosStart(plugins))

(* ------------------------------ state --------------------------------- *)
VARIABLES
  mPluginPath, mPluginFormat, mNativePlugins,   \* the binding
  mResetCallback,      \* TRUE when a callback is registered
  mWatch,              \* the fs.FSWatcher
  mRefreshTimer,       \* delay of the pending timer, NoTimer when none
  mSerializing, mSerializeQueue,
  mPlugins, mRetryCounter, mLoaded,
  disk,                \* the two files of every game directory
  writes,              \* the doSerialize runs whose file write is in flight
  reads,               \* the bag of deserialize attempts with a read in flight
  promises,            \* per write request, the promise serialize() returned
  used,                \* number of calls and of external events so far
  last,                \* what the last step was and did
  bindingLoaded,       \* a reload started under the current binding succeeded
  undisturbed,         \* number of write requests of an undisturbed sequence
  chain,               \* the reload attempts since the last external trigger
  failsInRow           \* reload attempts that failed since the last success

vars == <<mPluginPath, mPluginFormat, mNativePlugins, mResetCallback, mWatch,
          mRefreshTimer, mSerializing, mSerializeQueue, mPlugins,
          mRetryCounter, mLoaded, disk, writes, reads, promises, used, last,
          bindingLoaded, undisturbed, chain, failsInRow>>

binding == <<mPluginPath, mPluginFormat, mNativePlugins>>
ghosts == <<bindingLoaded, undisturbed, chain, failsInRow>>

NoTimer == 0
UndefinedWatch == [defined |-> FALSE]
Watcher(dir, open) == [defined |-> TRUE, dir |-> dir, open |-> open]

NoChain == [clean |-> FALSE]
\* failsInRow where the failures are not counted, and where they are
NotCounted == [counted |-> FALSE, n |-> 0]
Counted(n) == [counted |-> TRUE, n |-> n]
Step(op) == [op |-> op, arg |-> "", stale |-> FALSE, replaced |-> FALSE,
             reset |-> FALSE, io |-> "none", threw |-> FALSE, sched |-> FALSE,
             empty |-> FALSE, failed |-> FALSE]

RemoveAt(s, i) == SubSeq(s, 1, i - 1) \o SubSeq(s, i + 1, Len(s))

\* the values handed to setItem, JSON.parse applied ("invalid": it throws)
Map1 == Object([k \in {NameA, NameB} |->
                  IF k = NameA THEN Entry(TRUE, 0) ELSE Entry(FALSE, 1)])
Map2 == Object([k \in {NameA, NameB} |->
                  IF k = NameA THEN Entry(FALSE, 1) ELSE Entry(TRUE, 0)])
MapNullEntries == Object([k \in {NameA, NameB} |-> JSNull])
Invalid == [kind |-> "invalid", props |-> EmptyProps]
SetItemValues == {Map1, Map2, MapNullEntries, JSNull, Invalid}
RemoveItemKeys == {NameA}

\* what the files hold at the start and what an external edit leaves
InitialFiles(g) ==
  IF g = "g1"
  THEN [loadorder |-> <<Header, NameB, NameN, NameA>>,
        plugins |-> <<Header, NameA, NameN, NameConstructor>>]
  ELSE [loadorder |-> <<EmptyLine>>,
        plugins |-> <<Header, <<"*", "a">>, NameB>>]
EditedFiles == {<<EmptyLine>>}

Init ==
  /\ mPluginPath = Undefined
  /\ mPluginFormat = Undefined
  /\ mNativePlugins = UndefinedSet
  /\ mResetCallback = FALSE
  /\ mWatch = UndefinedWatch
  /\ mRefreshTimer = NoTimer
  /\ mSerializing = FALSE
  /\ mSerializeQueue = [state |-> "resolved", pending |-> << >>]
  /\ mPlugins = EmptyMap
  /\ mRetryCounter = retryCount
  /\ mLoaded = FALSE
  /\ disk = [g \in Games |-> InitialFiles(g)]
  /\ writes = << >>
  /\ reads = EmptyBag
  /\ promises = << >>
  /\ used = [calls |-> 0, events |-> 0]
  /\ last = Step("init")
  /\ bindingLoaded = FALSE
  /\ undisturbed = 0
  /\ chain = NoChain
  /\ failsInRow = NotCounted

(* ---------------------------- procedures ------------------------------ *)
\* deserialize, lines 187-206: the reads after the call
deserialize(path, format, rs) ==
  IF path = Undefined THEN rs
  ELSE rs (+) SetToBag({[dir |-> path,
                         phase |-> IF format = "original" THEN "loadorder"
                                   ELSE "plugins",
                         newPlugins |-> EmptyProps, stale |-> FALSE]})

\* the attempts in flight, one of them ended, all of them marked as started
\* under a binding that is no longer the current one
InFlight == BagCardinality(reads)
Ended(a) == reads (-) SetToBag({a})
Copies(a) == IF BagIn(a, reads) THEN reads[a] ELSE 0
Staled ==
  [b \in {[a EXCEPT !.stale = TRUE] : a \in BagToSet(reads)} |->
     Copies(b) + Copies([b EXCEPT !.stale = FALSE])]

\* the attempts counted by the chain, after a call of deserialize
Attempted(c, path) ==
  IF c.clean /\ path # Undefined THEN [c EXCEPT !.attempts = @ + 1] ELSE c

\* startWatch, lines 242-263: the old watcher is closed; fs.watch may throw,
\* which leaves the closed watcher in place.  The game directories exist, so
\* fs.watch succeeds
WatchOutcomes == {TRUE}
startWatch(watchOk) ==
  IF watchOk THEN Watcher(mPluginPath', TRUE)
  ELSE IF mWatch.defined THEN Watcher(mWatch.dir, FALSE)
  ELSE UndefinedWatch

WellFormed(m) == m # JSNull /\ \A k \in Keys(m) : m.props[k] # JSNull
QueueIdle == /\ mSerializeQueue = [state |-> "resolved", pending |-> << >>]
             /\ writes = << >>
             /\ ~mSerializing
\* what a write of map m under the current binding leaves in the two files
Rendering(m) ==
  [loadorder |-> LoadOrderData(Sorted(m, mNativePlugins)),
   plugins |-> PluginsData(toPluginList(m, mPluginFormat,
                                        Sorted(m, mNativePlugins)))]

\* a reload triggered from outside while the counter is at its maximum and
\* nothing is pending; idle: no write was queued or running at the trigger
Fresh == mRetryCounter = retryCount /\ reads = EmptyBag /\ mRefreshTimer = NoTimer
NewChain(n) ==
  IF Fresh
  THEN [clean |-> TRUE, attempts |-> n, fails |-> 0, before |-> mPlugins,
        idle |-> QueueIdle]
  ELSE NoChain

(* ------------------------- binding operations ------------------------- *)
\* loadFiles, lines 41-49
loadFiles(gameMode, watchOk) ==
  /\ used.calls < MaxCalls
  /\ mPluginPath' = pluginPath(gameMode)
  /\ mPluginFormat' = pluginFormat(gameMode)
  /\ mNativePlugins' = SetOf(nativePlugins(gameMode))
  /\ reads' = deserialize(mPluginPath', mPluginFormat',
                IF mPluginPath = pluginPath(gameMode) THEN reads ELSE Staled)
  /\ mWatch' = startWatch(watchOk)
  /\ used' = [used EXCEPT !.calls = @ + 1]
  /\ last' = [Step("loadFiles") EXCEPT !.arg = gameMode, !.io = "read"]
  /\ bindingLoaded' = FALSE
  /\ undisturbed' = 0
  /\ chain' = NewChain(1)
  /\ UNCHANGED <<mResetCallback, mRefreshTimer, mSerializing, mSerializeQueue,
                 mPlugins, mRetryCounter, mLoaded, disk, writes, promises>>
  /\ UNCHANGED failsInRow

\* stopSync, lines 56-65
stopSync ==
  /\ used.calls < MaxCalls
  /\ mPluginPath' = Undefined
  /\ mPluginFormat' = Undefined
  /\ mNativePlugins' = UndefinedSet
  /\ mWatch' = UndefinedWatch
  /\ reads' = Staled
  /\ used' = [used EXCEPT !.calls = @ + 1]
  /\ last' = Step("stopSync")
  /\ bindingLoaded' = FALSE
  /\ undisturbed' = 0
  /\ chain' = NoChain
  /\ UNCHANGED <<mResetCallback, mRefreshTimer, mSerializing, mSerializeQueue,
                 mPlugins, mRetryCounter, mLoaded, disk, writes, promises>>
  /\ UNCHANGED failsInRow

\* setResetCallback, lines 67-69
setResetCallback ==
  /\ ~mResetCallback
  /\ mResetCallback' = TRUE
  /\ last' = Step("setResetCallback")
  /\ UNCHANGED <<binding, mWatch, mRefreshTimer, mSerializing, mSerializeQueue,
                 mPlugins, mRetryCounter, mLoaded, disk, writes, reads,
                 promises, used, ghosts>>

(* ------------------------------ reload -------------------------------- *)
\* the callback of scheduleRefresh, lines 236-239
TimerFires ==
  /\ mRefreshTimer # NoTimer
  /\ mRefreshTimer' = NoTimer
  /\ reads' = deserialize(mPluginPath, mPluginFormat, reads)
  /\ chain' = Attempted(chain, mPluginPath)
  /\ last' = [Step("timer") EXCEPT
                !.io = IF mPluginPath = Undefined THEN "none" ELSE "read"]
  /\ UNCHANGED <<binding, mResetCallback, mWatch, mSerializing,
                 mSerializeQueue, mPlugins, mRetryCounter, mLoaded, disk,
                 writes, promises, used, bindingLoaded, undisturbed>>
  /\ UNCHANGED failsInRow

\* deserialize's catch, lines 223-229, with scheduleRefresh(100)
RetryGuardOffByOne(counter) == counter >= 0
RetryGuard(counter) == counter > 0
ReadFailed(a, empty) ==
  /\ reads' = Ended(a)
  /\ mRetryCounter' = IF RetryGuard(mRetryCounter) THEN mRetryCounter - 1
                      ELSE mRetryCounter
  /\ mRefreshTimer' = IF RetryGuard(mRetryCounter) THEN RetryDelay
                      ELSE mRefreshTimer
  /\ chain' = IF chain.clean THEN [chain EXCEPT !.fails = @ + 1] ELSE chain
  /\ last' = [Step("readDone") EXCEPT !.stale = a.stale, !.failed = TRUE,
                                      !.empty = empty,
                                      !.sched = RetryGuard(mRetryCounter)]
  /\ failsInRow' = IF failsInRow.counted THEN Counted(failsInRow.n + 1)
                     ELSE failsInRow
  /\ UNCHANGED <<mPlugins, mLoaded, bindingLoaded, undisturbed>>

\* completion of the read of loadorder.txt, lines 196-203
ReadLoadOrderDone(a, ok) ==
  /\ BagIn(a, reads)
  /\ a.phase = "loadorder"
  /\ LET data == disk[a.dir].loadorder
         keys == filterFileData(data)
         thrown == \/ initFromKeyListThrows(keys, mNativePlugins)
                   \/ mPluginPath = Undefined          \* path.join
     IN IF ~ok \/ thrown
        THEN ReadFailed(a, ok /\ ZeroLength(data))
        ELSE /\ reads' = Ended(a) (+) SetToBag({
                  [a EXCEPT !.phase = "plugins", !.dir = mPluginPath,
                            !.newPlugins = initFromKeyList(@, keys, FALSE,
                                             mPluginFormat, mNativePlugins)]})
             /\ last' = [Step("readDone") EXCEPT !.stale = a.stale,
                                                 !.empty = ZeroLength(data),
                                                 !.io = "read"]
             /\ UNCHANGED <<mPlugins, mRetryCounter, mLoaded, mRefreshTimer,
                            ghosts>>
  /\ UNCHANGED <<binding, mResetCallback, mWatch, mSerializing,
                 mSerializeQueue, disk, writes, promises, used>>

\* the reset branch of the success handler, lines 217-221
ResetGuard(callback) == callback

\* completion of the read of plugins.txt, lines 208-222
ReadPluginsDone(a, ok) ==
  /\ BagIn(a, reads)
  /\ a.phase = "plugins"
  /\ LET data == disk[a.dir].plugins
         keys == filterFileData(data)
     IN IF ~ok \/ ZeroLength(data) \/ initFromKeyListThrows(keys, mNativePlugins)
        THEN ReadFailed(a, ok /\ ZeroLength(data))
        ELSE /\ reads' = Ended(a)
             /\ mPlugins' = Object(initFromKeyList(a.newPlugins, keys,
                                     TRUE, mPluginFormat, mNativePlugins))
             /\ mLoaded' = (mLoaded \/ ResetGuard(mResetCallback))
             /\ mRetryCounter' = IF ResetGuard(mResetCallback) THEN retryCount
                                 ELSE mRetryCounter
             /\ last' = [Step("readDone") EXCEPT
                           !.stale = a.stale, !.replaced = TRUE,
                           !.reset = mResetCallback]
             /\ bindingLoaded' = (bindingLoaded \/
                  (~a.stale /\ a.dir = mPluginPath))
             /\ undisturbed' = 0
             /\ chain' = NoChain
             /\ failsInRow' = IF failsInRow.counted THEN Counted(0)
                                ELSE failsInRow
             /\ UNCHANGED mRefreshTimer
  /\ UNCHANGED <<binding, mResetCallback, mWatch, mSerializing,
                 mSerializeQueue, disk, writes, promises, used>>

(* ------------------------------- writes ------------------------------- *)
\* the count of write requests issued since a loaded, bound and idle persistor
Requested(m) ==
  IF ~WellFormed(m) THEN 0
  ELSE IF undisturbed > 0 THEN undisturbed + 1
  ELSE IF mLoaded /\ mPluginPath # Undefined /\ QueueIdle THEN 1
  ELSE 0

\* the guard of serialize, lines 113-117
SerializeGuard(loaded) == ~loaded

\* serialize, lines 112-123
serialize ==
  LET r == Len(promises) + 1
  IN IF SerializeGuard(mLoaded)
     THEN /\ promises' = Append(promises, [state |-> "resolved",
                                           early |-> ~bindingLoaded])
          /\ UNCHANGED mSerializeQueue
     ELSE /\ promises' = Append(promises, [state |-> "pending",
                                           early |-> ~bindingLoaded])
          /\ mSerializeQueue' = [mSerializeQueue EXCEPT !.pending = Append(@, r)]

\* JSON.parse(value), line 76: a SyntaxError for text that is not JSON
ParseThrowsNever(value) == FALSE
ParseThrows(value) == value = Invalid
ArgOf(value) == IF value = Invalid THEN "invalid" ELSE ""

\* setItem, lines 75-78
setItem(value) ==
  /\ used.calls < MaxCalls
  /\ IF ParseThrows(value)
     THEN /\ last' = [Step("setItem") EXCEPT !.arg = ArgOf(value),
                                            !.threw = TRUE]
          /\ UNCHANGED <<mPlugins, promises, mSerializeQueue, ghosts>>
     ELSE /\ mPlugins' = value
          /\ serialize
          /\ last' = [Step("setItem") EXCEPT !.arg = ArgOf(value)]
          /\ undisturbed' = Requested(value)
          /\ chain' = NoChain
          /\ UNCHANGED <<bindingLoaded, failsInRow>>
  /\ used' = [used EXCEPT !.calls = @ + 1]
  /\ UNCHANGED <<binding, mResetCallback, mWatch, mRefreshTimer, mSerializing,
                 mRetryCounter, mLoaded, disk, writes, reads>>

\* getItem, lines 71-73, and getAllKeys, lines 85-87
getItem ==
  /\ used.calls < MaxCalls
  /\ used' = [used EXCEPT !.calls = @ + 1]
  /\ last' = Step("getItem")
  /\ UNCHANGED <<binding, mResetCallback, mWatch, mRefreshTimer, mSerializing,
                 mSerializeQueue, mPlugins, mRetryCounter, mLoaded, disk,
                 writes, reads, promises, ghosts>>

getAllKeys ==
  /\ used.calls < MaxCalls
  /\ used' = [used EXCEPT !.calls = @ + 1]
  /\ last' = Step("getAllKeys")
  /\ UNCHANGED <<binding, mResetCallback, mWatch, mRefreshTimer, mSerializing,
                 mSerializeQueue, mPlugins, mRetryCounter, mLoaded, disk,
                 writes, reads, promises, ghosts>>

\* removeItem, lines 80-83: delete throws on a null map
removeItem(key) ==
  /\ used.calls < MaxCalls
  /\ IF mPlugins = JSNull
     THEN /\ last' = [Step("removeItem") EXCEPT !.threw = TRUE]
          /\ UNCHANGED <<mPlugins, promises, mSerializeQueue, ghosts>>
     ELSE /\ mPlugins' = Object(Delete(mPlugins.props, key))
          /\ serialize
          /\ last' = Step("removeItem")
          /\ undisturbed' = Requested(mPlugins')
          /\ chain' = NoChain
          /\ UNCHANGED <<bindingLoaded, failsInRow>>
  /\ used' = [used EXCEPT !.calls = @ + 1]
  /\ UNCHANGED <<binding, mResetCallback, mWatch, mRefreshTimer, mSerializing,
                 mRetryCounter, mLoaded, disk, writes, reads>>

\* what the promise of the queue's callback waits for, lines 119-121: the
\* callback returns nothing, so the promise settles when doSerialize returns
Awaits(run) == FALSE

\* the callback queued by serialize, with the synchronous part of doSerialize,
\* lines 119-140; a run in flight remembers the map and the directory it
\* started with (map, start)
RunQueued ==
  /\ mSerializeQueue.pending # << >>
  /\ LET r == Head(mSerializeQueue.pending)
         rest == Tail(mSerializeQueue.pending)
         settle(st) == [promises EXCEPT ![r].state = st]
     IN /\ \A i \in DOMAIN writes : ~Awaits(writes[i])
        /\ IF mSerializeQueue.state = "rejected"
           THEN /\ promises' = settle("rejected")
                /\ mSerializeQueue' = [mSerializeQueue EXCEPT !.pending = rest]
                /\ last' = Step("doSerialize")
                /\ UNCHANGED <<mSerializing, writes, undisturbed>>
           ELSE IF mPluginPath = Undefined
           THEN /\ promises' = settle("resolved")
                /\ mSerializeQueue' = [mSerializeQueue EXCEPT !.pending = rest]
                /\ last' = Step("doSerialize")
                /\ UNCHANGED <<mSerializing, writes, undisturbed>>
           ELSE IF SortThrows(mPlugins, mNativePlugins)
           THEN /\ mSerializing' = TRUE
                /\ promises' = settle("rejected")
                /\ mSerializeQueue' = [state |-> "rejected", pending |-> rest]
                /\ last' = [Step("doSerialize") EXCEPT !.threw = TRUE]
                /\ undisturbed' = 0
                /\ UNCHANGED writes
           ELSE /\ mSerializing' = TRUE
                /\ writes' = Append(writes,
                     [req |-> r, phase |-> "loadorder", dir |-> mPluginPath,
                      sorted |-> Sorted(mPlugins, mNativePlugins),
                      data |-> LoadOrderData(Sorted(mPlugins, mNativePlugins)),
                      map |-> mPlugins, start |-> mPluginPath])
                /\ promises' = settle("resolved")
                /\ mSerializeQueue' = [mSerializeQueue EXCEPT !.pending = rest]
                /\ last' = [Step("doSerialize") EXCEPT !.io = "write"]
                /\ UNCHANGED undisturbed
  /\ UNCHANGED <<binding, mResetCallback, mWatch, mRefreshTimer, mPlugins,
                 mRetryCounter, mLoaded, disk, reads, used, bindingLoaded,
                 chain>>
  /\ UNCHANGED failsInRow

\* doSerialize's catch and finally, lines 146-153
WriteEnded(i) ==
  /\ writes' = RemoveAt(writes, i)
  /\ mSerializing' = FALSE

\* completion of the write of loadorder.txt, lines 141-145
WriteLoadOrderDone(i, ok) ==
  /\ i \in DOMAIN writes
  /\ writes[i].phase = "loadorder"
  /\ disk' = IF ok THEN [disk EXCEPT ![writes[i].dir].loadorder = writes[i].data]
             ELSE disk
  /\ LET thrown == \/ toPluginListThrows(mPlugins, mPluginFormat, writes[i].sorted)
                   \/ mPluginPath = Undefined          \* path.join
     IN IF ~ok \/ thrown
        THEN /\ WriteEnded(i)
             /\ last' = [Step("writeDone") EXCEPT !.threw = TRUE]
             /\ undisturbed' = 0
        ELSE /\ writes' = [writes EXCEPT ![i] =
                  [@ EXCEPT !.phase = "plugins", !.dir = mPluginPath,
                            !.sorted = << >>,
                            !.data = PluginsData(toPluginList(mPlugins,
                                       mPluginFormat, writes[i].sorted))]]
             /\ last' = [Step("writeDone") EXCEPT !.io = "write"]
             /\ UNCHANGED <<mSerializing, undisturbed>>
  /\ UNCHANGED <<binding, mResetCallback, mWatch, mRefreshTimer,
                 mSerializeQueue, mPlugins, mRetryCounter, mLoaded, reads,
                 promises, used, bindingLoaded, chain>>
  /\ UNCHANGED failsInRow

\* completion of the write of plugins.txt, lines 143-153
WritePluginsDone(i, ok) ==
  /\ i \in DOMAIN writes
  /\ writes[i].phase = "plugins"
  /\ disk' = IF ok THEN [disk EXCEPT ![writes[i].dir].plugins = writes[i].data]
             ELSE disk
  /\ WriteEnded(i)
  /\ last' = [Step("writeDone") EXCEPT !.threw = ~ok]
  /\ undisturbed' = IF ok THEN undisturbed ELSE 0
  /\ UNCHANGED <<binding, mResetCallback, mWatch, mRefreshTimer,
                 mSerializeQueue, mPlugins, mRetryCounter, mLoaded, reads,
                 promises, used, bindingLoaded, chain>>
  /\ UNCHANGED failsInRow

(* --------------------------- change watcher --------------------------- *)
\* the guard of the listener, lines 253-254
WatchGuard(serializing, fileName) ==
  ~serializing /\ fileName \in WatchedFileNames

\* the listener of fs.watch, lines 252-257, with scheduleRefresh(500)
WatchEvent(fileName) ==
  /\ used.events < MaxEvents
  /\ mWatch.defined /\ mWatch.open
  /\ used' = [used EXCEPT !.events = @ + 1]
  /\ IF WatchGuard(mSerializing, fileName)
     THEN /\ mRefreshTimer' = DebounceDelay
          /\ chain' = NewChain(0)
          /\ last' = [Step("watch") EXCEPT !.arg = fileName, !.sched = TRUE]
     ELSE /\ last' = [Step("watch") EXCEPT !.arg = fileName]
          /\ UNCHANGED <<mRefreshTimer, chain>>
  /\ UNCHANGED <<binding, mResetCallback, mWatch, mSerializing,
                 mSerializeQueue, mPlugins, mRetryCounter, mLoaded, disk,
                 writes, reads, promises, bindingLoaded, undisturbed>>
  /\ UNCHANGED failsInRow

\* another program rewrites one of the files of the bound directory
ExternalEdit(g, file, text) ==
  /\ used.events < MaxEvents
  /\ g = mPluginPath
  /\ disk[g][file] # text
  /\ disk' = [disk EXCEPT ![g][file] = text]
  /\ used' = [used EXCEPT !.events = @ + 1]
  /\ last' = Step("edit")
  /\ undisturbed' = 0
  /\ UNCHANGED <<binding, mResetCallback, mWatch, mRefreshTimer, mSerializing,
                 mSerializeQueue, mPlugins, mRetryCounter, mLoaded, writes,
                 reads, promises, bindingLoaded, chain>>
  /\ UNCHANGED failsInRow

(* --------------------------- specification ---------------------------- *)
Next ==
  \/ \E g \in Games, watchOk \in WatchOutcomes : loadFiles(g, watchOk)
  \/ stopSync
  \/ setResetCallback
  \/ \E v \in SetItemValues : setItem(v)
  \/ \E k \in RemoveItemKeys : removeItem(k)
  \/ getItem
  \/ getAllKeys
  \/ RunQueued
  \/ \E i \in DOMAIN writes, ok \in BOOLEAN : WriteLoadOrderDone(i, ok)
  \/ \E i \in DOMAIN writes, ok \in BOOLEAN : WritePluginsDone(i, ok)
  \/ TimerFires
  \/ \E a \in BagToSet(reads), ok \in BOOLEAN : ReadLoadOrderDone(a, ok)
  \/ \E a \in BagToSet(reads), ok \in BOOLEAN : ReadPluginsDone(a, ok)
  \/ \E f \in FileNames : WatchEvent(f)
  \/ \E g \in Games, file \in {"loadorder", "plugins"}, text \in EditedFiles :
       ExternalEdit(g, file, text)

Spec == Init /\ [][Next]_vars

\* the reload engine and the change watcher alone: no call of the store
\* contract (setItem, removeItem, getItem, getAllKeys), hence no write
NextReload ==
  \/ \E g \in Games, watchOk \in WatchOutcomes : loadFiles(g, watchOk)
  \/ stopSync
  \/ setResetCallback
  \/ TimerFires
  \/ \E a \in BagToSet(reads), ok \in BOOLEAN : ReadLoadOrderDone(a, ok)
  \/ \E a \in BagToSet(reads), ok \in BOOLEAN : ReadPluginsDone(a, ok)
  \/ \E f \in FileNames : WatchEvent(f)
  \/ \E g \in Games, file \in {"loadorder", "plugins"}, text \in EditedFiles :
       ExternalEdit(g, file, text)

SpecReload == Init /\ [][NextReload]_vars

\* the store contract and the write serializer on a persistor that is bound
\* and reloaded: no unbind, no watcher notification, no external edit
NextStore ==
  \/ \E g \in Games, watchOk \in WatchOutcomes : loadFiles(g, watchOk)
  \/ setResetCallback
  \/ \E v \in SetItemValues : setItem(v)
  \/ \E k \in RemoveItemKeys : removeItem(k)
  \/ getItem
  \/ getAllKeys
  \/ RunQueued
  \/ \E i \in DOMAIN writes, ok \in BOOLEAN : WriteLoadOrderDone(i, ok)
  \/ \E i \in DOMAIN writes, ok \in BOOLEAN : WritePluginsDone(i, ok)
  \/ TimerFires
  \/ \E a \in BagToSet(reads), ok \in BOOLEAN : ReadLoadOrderDone(a, ok)
  \/ \E a \in BagToSet(reads), ok \in BOOLEAN : ReadPluginsDone(a, ok)

SpecStore == Init /\ [][NextStore]_vars

\* the format adapter at work: binds, setItem, writes and reloads whose file
\* I/O succeeds, over a larger choice of maps and of file contents, with the
\* reset callback registered from the start
MapW == Object([k \in {NameW} |-> Entry(TRUE, 0)])
MapHash == Object([k \in {NameHash, NameA} |->
                     IF k = NameHash THEN Entry(TRUE, 0) ELSE Entry(FALSE, 1)])
MapStar == Object([k \in {NameStar} |-> Entry(FALSE, 0)])
MapNative == Object([k \in {NameN, NameA} |->
                       IF k = NameN THEN Entry(TRUE, 0) ELSE Entry(FALSE, 1)])
FormatMaps == {Map1, MapW, MapHash, MapStar, MapNative}
RepeatedLines ==
  [loadorder |-> <<Header, NameA, EmptyLine, NameA, NameB>>,
   plugins |-> <<Header, NameB, <<"*", "N">>, NameB>>]
FormatFiles == {InitialFiles("g1"), InitialFiles("g2"), RepeatedLines}

InitFormat ==
  /\ mPluginPath = Undefined
  /\ mPluginFormat = Undefined
  /\ mNativePlugins = UndefinedSet
  /\ mResetCallback = TRUE
  /\ mWatch = UndefinedWatch
  /\ mRefreshTimer = NoTimer
  /\ mSerializing = FALSE
  /\ mSerializeQueue = [state |-> "resolved", pending |-> << >>]
  /\ mPlugins = EmptyMap
  /\ mRetryCounter = retryCount
  /\ mLoaded = FALSE
  /\ disk \in [Games -> FormatFiles]
  /\ writes = << >>
  /\ reads = EmptyBag
  /\ promises = << >>
  /\ used = [calls |-> 0, events |-> 0]
  /\ last = Step("init")
  /\ bindingLoaded = FALSE
  /\ undisturbed = 0
  /\ chain = NoChain
  /\ failsInRow = NotCounted

NextFormat ==
  \/ \E g \in Games, watchOk \in WatchOutcomes : loadFiles(g, watchOk)
  \/ \E v \in FormatMaps : setItem(v)
  \/ RunQueued
  \/ \E i \in DOMAIN writes : WriteLoadOrderDone(i, TRUE)
  \/ \E i \in DOMAIN writes : WritePluginsDone(i, TRUE)
  \/ \E a \in BagToSet(reads) : ReadLoadOrderDone(a, TRUE)
  \/ \E a \in BagToSet(reads) : ReadPluginsDone(a, TRUE)

SpecFormat == InitFormat /\ [][NextFormat]_vars

\* a bound persistor with the reset callback registered, whose timers fire
\* and whose queued callbacks, reads and writes complete; a reload attempt
\* fails at most retryCount times in a row; no unbind, no external edit
LiveValues == SetItemValues \ {Invalid}
MayFail == failsInRow.n < retryCount
InitLive ==
  /\ mPluginPath = Undefined
  /\ mPluginFormat = Undefined
  /\ mNativePlugins = UndefinedSet
  /\ mResetCallback = TRUE
  /\ mWatch = UndefinedWatch
  /\ mRefreshTimer = NoTimer
  /\ mSerializing = FALSE
  /\ mSerializeQueue = [state |-> "resolved", pending |-> << >>]
  /\ mPlugins = EmptyMap
  /\ mRetryCounter = retryCount
  /\ mLoaded = FALSE
  /\ disk = [g \in Games |-> InitialFiles(g)]
  /\ writes = << >>
  /\ reads = EmptyBag
  /\ promises = << >>
  /\ used = [calls |-> 0, events |-> 0]
  /\ last = Step("init")
  /\ bindingLoaded = FALSE
  /\ undisturbed = 0
  /\ chain = NoChain
  /\ failsInRow = Counted(0)

ReadCompletes ==
  \/ \E a \in BagToSet(reads), ok \in BOOLEAN :
       (ok \/ MayFail) /\ ReadLoadOrderDone(a, ok)
  \/ \E a \in BagToSet(reads), ok \in BOOLEAN :
       (ok \/ MayFail) /\ ReadPluginsDone(a, ok)
WriteCompletes ==
  \/ \E i \in DOMAIN writes, ok \in BOOLEAN : WriteLoadOrderDone(i, ok)
  \/ \E i \in DOMAIN writes, ok \in BOOLEAN : WritePluginsDone(i, ok)

NextLive ==
  \/ \E g \in Games, watchOk \in WatchOutcomes : loadFiles(g, watchOk)
  \/ \E v \in LiveValues : setItem(v)
  \/ \E k \in RemoveItemKeys : removeItem(k)
  \/ RunQueued
  \/ TimerFires
  \/ ReadCompletes
  \/ WriteCompletes

SpecLive ==
  /\ InitLive /\ [][NextLive]_vars
  /\ WF_vars(RunQueued) /\ WF_vars(TimerFires)
  /\ WF_vars(ReadCompletes) /\ WF_vars(WriteCompletes)

(* ------------------------------ claims -------------------------------- *)
Bound == mPluginPath # Undefined
TimerPending == mRefreshTimer # NoTimer

\* C1: at most one doSerialize run (its loadorder.txt write followed by its
\* plugins.txt write) is in flight at any time.
C1_AtMostOneWriteInFlight == Len(writes) <= 1

\* C2: the promise serialize() returned for a request is resolved only when
\* the write of that request and of every request queued ahead of it has ended.
C2_SettledAfterWrites ==
  \A r \in DOMAIN promises :
    promises[r].state = "resolved" =>
      \A i \in DOMAIN writes : writes[i].req > r

\* C3: after two or more write requests issued in a row on a loaded, bound and
\* idle persistor, once all of them have completed without error the two files
\* hold the rendering of the map as the requests left it.
C3_WriteOrdering ==
  (undisturbed >= 2 /\ QueueIdle) => disk[mPluginPath] = Rendering(mPlugins)

\* C4: a write request issued before a reload started under the current
\* binding has succeeded starts no disk write.
C4_NoWriteBeforeFirstReload ==
  \A i \in DOMAIN writes : ~promises[writes[i].req].early

\* C5: the completion of a read of a reload attempt that was started under a
\* binding that has since been cleared or replaced changes neither the map nor
\* loaded nor the retry counter, fires no reset callback and starts no read.
C5_StaleReloadInert ==
  [][(last'.op = "readDone" /\ last'.stale) =>
       /\ mPlugins' = mPlugins
       /\ mLoaded' = mLoaded
       /\ mRetryCounter' = mRetryCounter
       /\ ~last'.reset
       /\ last'.io = "none"]_vars

\* C6: a reload triggered while the retry counter is at its maximum and no
\* other attempt is pending, all of whose reads fail, makes at most 4 read
\* attempts, one at a time and each retry only after the previous attempt
\* failed; after the 4th failure (3 retries) nothing is scheduled and no read
\* is in flight; the map stays what it was at the trigger.
C6_RetryExhaustion ==
  chain.clean =>
    /\ chain.attempts <= retryCount + 1
    /\ chain.fails <= chain.attempts
    /\ InFlight + (IF TimerPending THEN 1 ELSE 0) <= 1
    /\ chain.attempts = chain.fails + InFlight
    /\ mRetryCounter = IF chain.fails > retryCount THEN 0
                       ELSE retryCount - chain.fails
    /\ (TimerPending => mRefreshTimer = IF chain.fails = 0 THEN DebounceDelay
                                        ELSE RetryDelay)
    /\ (chain.fails = retryCount + 1 =>
          chain.attempts = retryCount + 1 /\ reads = EmptyBag /\ ~TimerPending)
    /\ mPlugins = chain.before
C6_Witness ==
  chain.clean /\ chain.fails = retryCount + 1 /\ chain.attempts = retryCount + 1

\* C7: after every successful reload loaded is true and the retry counter is
\* at its maximum, whether or not a reset callback is registered.
C7_SuccessSetsLoaded ==
  (last.op = "readDone" /\ last.replaced) =>
    mLoaded /\ mRetryCounter = retryCount

\* C8: a notification for loadorder.txt or plugins.txt delivered while a disk
\* write is in flight schedules no reload.
C8_NoReloadDuringWrite ==
  (last.op = "watch" /\ last.arg \in WatchedFileNames /\ writes # << >>) =>
    ~last.sched

\* C9: a failing write never rejects the write queue: no promise returned by
\* serialize() is rejected, so every later request runs and every callback of
\* setItem/removeItem is invoked.
C9_FailureAbsorbed ==
  /\ mSerializeQueue.state = "resolved"
  /\ \A r \in DOMAIN promises : promises[r].state # "rejected"

\* C10: while unbound no file read and no file write is initiated, and
\* getItem, setItem with valid JSON, removeItem and getAllKeys do not throw.
C10_NoIOWhileUnbound == last.io # "none" => Bound
C10_UnboundNoOp ==
  /\ C10_NoIOWhileUnbound
  /\ (/\ ~Bound
      /\ last.op \in {"getItem", "setItem", "removeItem", "getAllKeys"}
      /\ last.arg # "invalid") => ~last.threw

\* C11: after stopSync the map is empty, so that getItem returns the JSON of
\* the empty map, whatever the map held before.
C11_EmptyAfterStopSync == last.op = "stopSync" => mPlugins = EmptyMap

\* C12: a notification for loadorder.txt or plugins.txt delivered while no
\* write is in flight cancels the pending timer and arms the debounce timer,
\* which is then the one timer pending; the timer starts one reload when it
\* fires.
C12_DebounceArmed ==
  /\ (last.op = "watch" /\ last.arg \in WatchedFileNames /\ writes = << >>) =>
       last.sched /\ mRefreshTimer = DebounceDelay
  /\ (last.op = "timer" /\ Bound) => InFlight >= 1

\* C13: a reload attempt that reads a zero-length file (loadorder.txt or
\* plugins.txt) fails: the map is not replaced, the reset callback is not
\* fired and the failure takes the retry path of a read error.
C13_EmptyFileFails ==
  (last.op = "readDone" /\ last.empty) =>
    last.failed /\ ~last.replaced /\ ~last.reset

\* C14: setItem with a value that is not valid JSON throws to the caller and
\* changes nothing: the map keeps its value, no write request is queued, no
\* write is started and no file is touched.
C14_InvalidJsonRejected ==
  [][(last'.op = "setItem" /\ last'.arg = "invalid") =>
       /\ last'.threw
       /\ mPlugins' = mPlugins
       /\ mSerializeQueue' = mSerializeQueue
       /\ promises' = promises
       /\ writes' = writes
       /\ disk' = disk]_vars
C14_Witness ==
  /\ last.op = "setItem" /\ last.arg = "invalid" /\ last.threw
  /\ Bound /\ mLoaded /\ mPlugins # EmptyMap

\* C15: a name whose lower-cased form is in the bound native set is in no
\* file content a write produces and is no key of the map a reload installs.
Native(name) == mNativePlugins.defined /\ ToLowerCase(name) \in mNativePlugins.elems
Unmarked(line) == IF StartsWith(line, "*") THEN Slice1(line) ELSE line
NoNativeLine(data) ==
  \A i \in DOMAIN data :
    /\ ~Native(data[i])
    /\ mPluginFormat = "fallout4" => ~Native(Unmarked(data[i]))
C15_NativeExclusion ==
  /\ (last.io = "write" /\ Len(writes) = 1) => NoNativeLine(writes[1].data)
  /\ (last.op = "readDone" /\ last.replaced) =>
       \A k \in Keys(mPlugins) : ~Native(k)

\* the maps of the round trips, and what a round trip preserves
RoundTripMap(m) ==
  /\ WellFormed(m)
  /\ \A k \in Keys(m) : ~Native(k)
  /\ \A k1, k2 \in Keys(m) :
       k1 # k2 => m.props[k1].loadOrder # m.props[k2].loadOrder
SameEntries(m, n) ==
  /\ Keys(n) = Keys(m)
  /\ \A k \in Keys(m) : n.props[k].enabled = m.props[k].enabled
  /\ \A k1, k2 \in Keys(m) :
       (n.props[k1].loadOrder < n.props[k2].loadOrder)
         <=> (m.props[k1].loadOrder < m.props[k2].loadOrder)
\* the step that completes a reload, triggered while no write was queued or
\* running, of the files that a write of the map (chain.before) produces
ReloadOfWritten(format) ==
  /\ last'.op = "readDone" /\ last'.replaced
  /\ mPluginFormat = format
  /\ chain.clean /\ chain.idle
  /\ RoundTripMap(chain.before)
  /\ disk[mPluginPath] = Rendering(chain.before)

\* C16: in the Original format, reloading the two files a write of a map
\* (unique names and loadOrders, no native names) produced yields the same
\* names with the same enabled values in the same relative load order.
C16_RoundTripOriginal ==
  [][ReloadOfWritten("original") => SameEntries(chain.before, mPlugins')]_vars

\* C17: in the fallout4 format, reloading the plugins.txt a write of a map
\* (unique names and loadOrders, no native names) produced yields the same
\* names, enabled exactly where the marker was written, in the same relative
\* load order.
C17_RoundTripFallout4 ==
  [][ReloadOfWritten("fallout4") => SameEntries(chain.before, mPlugins')]_vars

\* C18: a write under the fallout4 format leaves loadorder.txt of the
\* directory unchanged.
C18_LoadOrderUntouched ==
  [][\A g \in Games :
       (pluginFormat(g) = "fallout4" /\ last'.op = "writeDone") =>
         disk'[g].loadorder = disk[g].loadorder]_vars

\* C19: a reload in the Original format, during which the files are not
\* written, installs the map whose keys are the
\* distinct non-native, non-comment, non-blank names of the two files, where
\* a name of loadorder.txt has the rank of its first occurrence among the
\* kept names as loadOrder and an entry is enabled exactly when its name
\* occurs in plugins.txt.
KeptNames(file) ==
  {file[i] : i \in {j \in DOMAIN file :
      /\ file[j] # EmptyLine
      /\ ~StartsWith(file[j], "#")
      /\ ~Native(file[j])}}
FirstAt(file, name) == CHOOSE i \in DOMAIN file :
  file[i] = name /\ \A j \in 1..(i - 1) : file[j] # name
Rank(file, name) ==
  Cardinality({x \in KeptNames(file) : FirstAt(file, x) < FirstAt(file, name)})
C19_ReloadOriginal ==
  [][(/\ last'.op = "readDone" /\ last'.replaced
      /\ mPluginFormat = "original"
      /\ chain.clean /\ chain.idle) =>
       LET files == disk[mPluginPath]
       IN /\ Keys(mPlugins') =
               KeptNames(files.loadorder) \cup KeptNames(files.plugins)
          /\ \A k \in Keys(mPlugins') :
               mPlugins'.props[k].enabled = (k \in KeptNames(files.plugins))
          /\ \A k \in Keys(mPlugins') \cap KeptNames(files.loadorder) :
               mPlugins'.props[k].loadOrder = Rank(files.loadorder, k)]_vars

\* C20: once a reload has used up the retry budget and has been given up
\* (4 attempts, 4 failures, nothing pending), the next reload triggered from
\* outside, here by loadFiles, has the full budget of 3 retries again.
GivenUp ==
  /\ chain.clean /\ chain.fails = retryCount + 1
  /\ reads = EmptyBag /\ ~TimerPending
C20_BudgetPerTrigger ==
  [][(GivenUp /\ last'.op = "loadFiles") => mRetryCounter' = retryCount]_vars

\* what deserialize installs when it reads the two files as they are, lines
\* 192-216, and the state right after a reload installed just that
deserialized(files, format, natives) ==
  Object(initFromKeyList(
    IF format = "original"
    THEN initFromKeyList(EmptyProps, filterFileData(files.loadorder), FALSE,
                         format, natives)
    ELSE EmptyProps,
    filterFileData(files.plugins), TRUE, format, natives))
Reloaded ==
  /\ last.op = "readDone" /\ last.replaced /\ last.reset
  /\ mLoaded
  /\ mPlugins = deserialized(disk[mPluginPath], mPluginFormat, mNativePlugins)
\* write request r was accepted on a loaded persistor; its write has started
Accepted(r) ==
  /\ last.op \in {"setItem", "removeItem"} /\ ~last.threw
  /\ Len(promises) = r /\ mLoaded /\ Bound
Writing(r) == \E i \in DOMAIN writes : writes[i].req = r

\* C21: with a reset callback registered, no stopSync and reads that fail at
\* most 3 times in a row, loadFiles leads to a state where the map is what
\* the files parse to, loaded is true and the reset callback has been
\* invoked; every setItem/removeItem on the loaded persistor leads to a disk
\* write.
C21_ReloadThenWrite ==
  /\ (last.op = "loadFiles") ~> Reloaded
  /\ \A r \in 1..MaxCalls : Accepted(r) ~> Writing(r)

\* the loadOrder values of a map are pairwise distinct and are 0..n-1; map g
\* keeps the entries' loadOrder of map f and numbers its new entries from
\* the size of f
Contiguous(f) ==
  /\ \A k1, k2 \in DOMAIN f : k1 # k2 => f[k1].loadOrder # f[k2].loadOrder
  /\ {f[k].loadOrder : k \in DOMAIN f} = 0..(Cardinality(DOMAIN f) - 1)
Continues(f, g) ==
  /\ DOMAIN f \subseteq DOMAIN g
  /\ \A k \in DOMAIN f : g[k].loadOrder = f[k].loadOrder
  /\ \A k \in DOMAIN g \ DOMAIN f : g[k].loadOrder >= Cardinality(DOMAIN f)

\* C22: after every successful reload, in both formats and whatever the
\* files hold, the loadOrder values of the map are pairwise distinct and are
\* exactly 0..n-1 for n entries; the entries found in loadorder.txt keep
\* their numbers and the entries found in plugins.txt are numbered on from
\* the size the map had then.
C22_LoadOrderContiguous ==
  [][(last'.op = "readDone" /\ last'.replaced) =>
       /\ Contiguous(mPlugins'.props)
       /\ \E a \in BagToSet(reads) :
            /\ a.phase = "plugins" /\ reads' = Ended(a)
            /\ Contiguous(a.newPlugins)
            /\ Continues(a.newPlugins, mPlugins'.props)]_vars
C22_Witness ==
  /\ last.op = "readDone" /\ last.replaced /\ mPluginFormat = "original"
  /\ Cardinality(Keys(mPlugins)) >= 3
  /\ \E k \in Keys(mPlugins) :
       /\ mPlugins.props[k].loadOrder = Cardinality(Keys(mPlugins)) - 1
       /\ \A i \in DOMAIN disk[mPluginPath].loadorder :
            disk[mPluginPath].loadorder[i] # k

\* the files a reload of the format reads
RelevantFileNames(format) ==
  IF format = "original" THEN {"loadorder.txt", "plugins.txt"}
  ELSE IF format = "fallout4" THEN {"plugins.txt"}
  ELSE {}

\* C23: the change watcher reacts only to the file names relevant to the
\* bound format: a notification schedules a reload only when it names
\* loadorder.txt or plugins.txt under the Original format, or plugins.txt
\* under the fallout4 format, and a notification that names such a file while
\* the watcher is not muted does schedule one.
C23_RelevantNamesOnly ==
  /\ (last.op = "watch" /\ last.sched) =>
       last.arg \in RelevantFileNames(mPluginFormat)
  /\ (/\ last.op = "watch" /\ ~mSerializing
      /\ last.arg \in RelevantFileNames(mPluginFormat)) => last.sched

\* C24: the write-in-flight flag is cleared whenever no disk write is in
\* flight: whatever the calls were and however the writes ended, once every
\* started write has ended mSerializing is false.
C24_FlagCleared == writes = << >> => ~mSerializing

\* what the run of doSerialize that started with map m in directory g hands
\* to the write of plugins.txt when both files come from that map
SnapshotThrows(m, g) ==
  toPluginListThrows(m, pluginFormat(g), Sorted(m, SetOf(nativePlugins(g))))
SnapshotPlugins(m, g) ==
  PluginsData(toPluginList(m, pluginFormat(g), Sorted(m, SetOf(nativePlugins(g)))))

\* C25: the two files one doSerialize run produces are consistent: the
\* plugins.txt it writes after loadorder.txt goes to the directory the run
\* started in and is rendered from the map, in the format, that loadorder.txt
\* was rendered from, whatever was called in between.
C25_OneSnapshot ==
  \A i \in DOMAIN writes :
    writes[i].phase = "plugins" =>
      /\ writes[i].dir = writes[i].start
      /\ ~SnapshotThrows(writes[i].map, writes[i].start)
      /\ writes[i].data = SnapshotPlugins(writes[i].map, writes[i].start)

\* C26: at most one reload attempt (the reads of one call of deserialize) is
\* in flight at any time: loadFiles or a timer that fires while an attempt is
\* still reading starts no second attempt.
C26_OneReloadInFlight == InFlight <= 1

====
